---- MODULE Spec2Model ----
(***************************************************************************)
(* A model of src/src/download-artifact.ts: run(), the two listing paths   *)
(* (internal listArtifacts, public paginated listWorkflowRunArtifacts),    *)
(* filterLatestArtifacts, chunk, and the chunked await of the downloads.   *)
(* Spec is run() as a whole; SpecLatest applies filterLatestArtifacts      *)
(* alone; SpecPaging is the listing loop against an endpoint that may      *)
(* answer every page with a full page.                                     *)
(*                                                                         *)
(* Text inputs that the code parses (artifact-ids, run-id, repository) are *)
(* sequences of one-character strings, so that split, trim and parseInt    *)
(* are computed.  Text the code only tests for emptiness or hands on       *)
(* (name, token, pattern) is a TLA+ string.  A number is the record NaN or  *)
(* Num(n); an absent digest is the string "undefined"; an absent findBy or *)
(* total count is a record whose field defined is FALSE.                   *)
(***************************************************************************)
EXTENDS Integers, Sequences, FiniteSets, TLC

\* ---------------------------------------------------------------- constants

PARALLEL_DOWNLOADS == 5
PUBLIC_API_PAGE_SIZE == 100

\* ---------------------------------------------------------------- bounds

\* Length of the longest list the internal listing collaborator returns.
MaxSelected == 7
\* The public endpoint answers at most this many page requests with a page
\* that lets the loop go on.
MaxPages == 3
\* Length of the longest artifact list handed to filterLatestArtifacts alone.
MaxLen == 3

\* ---------------------------------------------------------------- text

Min(a, b) == IF a < b THEN a ELSE b

IsDigit(c) == c \in {"0", "1", "2", "3", "4", "5", "6", "7", "8", "9"}

DigitVal(c) ==
    CASE c = "0" -> 0 [] c = "1" -> 1 [] c = "2" -> 2 [] c = "3" -> 3
      [] c = "4" -> 4 [] c = "5" -> 5 [] c = "6" -> 6 [] c = "7" -> 7
      [] c = "8" -> 8 [] c = "9" -> 9

IsSpace(c) == c = " "

\* String.prototype.trim
RECURSIVE TrimLeft(_)
TrimLeft(s) ==
    IF s # <<>> /\ IsSpace(Head(s)) THEN TrimLeft(Tail(s)) ELSE s

RECURSIVE TrimRight(_)
TrimRight(s) ==
    IF s # <<>> /\ IsSpace(s[Len(s)])
    THEN TrimRight(SubSeq(s, 1, Len(s) - 1))
    ELSE s

Trim(s) == TrimRight(TrimLeft(s))

\* String.prototype.split(sep) for a one-character separator: the empty
\* string splits into one empty piece.
RECURSIVE SplitFrom(_, _, _, _)
SplitFrom(s, sep, cur, acc) ==
    IF s = <<>> THEN Append(acc, cur)
    ELSE IF Head(s) = sep THEN SplitFrom(Tail(s), sep, <<>>, Append(acc, cur))
    ELSE SplitFrom(Tail(s), sep, Append(cur, Head(s)), acc)

Split(s, sep) == SplitFrom(s, sep, <<>>, <<>>)

\* Numbers as the code sees them: NaN or a finite integer.
NaN == [nan |-> TRUE, val |-> 0]
Num(n) == [nan |-> FALSE, val |-> n]

RECURSIVE DigitPrefix(_, _, _)
DigitPrefix(s, any, acc) ==
    IF s # <<>> /\ IsDigit(Head(s))
    THEN DigitPrefix(Tail(s), TRUE, acc * 10 + DigitVal(Head(s)))
    ELSE [any |-> any, val |-> acc]

\* parseInt(s, 10) (and parseInt(s) for text that does not start 0x):
\* leading white space is skipped, one sign is read, then the longest run of
\* digits; what follows the digits is ignored; no digit at all gives NaN.
ParseInt(s) ==
    LET t == TrimLeft(s)
        neg == t # <<>> /\ Head(t) = "-"
        signed == t # <<>> /\ Head(t) \in {"-", "+"}
        body == IF signed THEN Tail(t) ELSE t
        d == DigitPrefix(body, FALSE, 0)
    IN  IF ~d.any THEN NaN
        ELSE Num(IF neg THEN 0 - d.val ELSE d.val)

\* Number.isFinite: parseInt never yields an infinity.
IsFinite(n) == ~n.nan

\* ---------------------------------------------------------------- artifacts

Undefined == "undefined"
Null == "null"

\* options.findBy when run() leaves it unset
NoFindBy ==
    [defined |-> FALSE, token |-> "", workflowRunId |-> NaN,
     repositoryName |-> <<>>, repositoryOwner |-> <<>>]

\* let totalCount: number | undefined
NoTotal == [defined |-> FALSE, val |-> 0]
Total(n) == [defined |-> TRUE, val |-> n]

\* response.data of listWorkflowRunArtifacts, before any answer
NoResponse == [artifacts |-> <<>>, total_count |-> NoTotal]

\* mapApiArtifact: size_in_bytes is renamed, a null digest becomes undefined.
mapApiArtifact(apiArtifact) ==
    [id |-> apiArtifact.id,
     name |-> apiArtifact.name,
     size |-> apiArtifact.size_in_bytes,
     digest |-> IF apiArtifact.digest = Null THEN Undefined
                ELSE apiArtifact.digest]

\* apiArtifacts.map(apiArtifact => mapApiArtifact(apiArtifact))
MapApiArtifacts(apiArtifacts) ==
    [i \in 1..Len(apiArtifacts) |-> mapApiArtifact(apiArtifacts[i])]

\* Array.prototype.includes
Includes(s, x) == \E i \in 1..Len(s) : s[i] = x

\* chunk: reduce over the array, element i (from 0) goes to chunk floor(i/n).
RECURSIVE chunkReduce(_, _, _, _)
chunkReduce(arr, n, i, acc) ==
    IF i >= Len(arr) THEN acc
    ELSE LET index == i \div n
             cur == arr[i + 1]
         IN  chunkReduce(arr, n, i + 1,
                 IF index + 1 > Len(acc)
                 THEN Append(acc, <<cur>>)
                 ELSE [acc EXCEPT ![index + 1] = Append(@, cur)])

chunk(arr, n) == chunkReduce(arr, n, 0, <<>>)

\* [...artifacts].sort((a, b) => b.id - a.id): a stable sort, greatest id
\* first; elements of equal id keep their order.  A merge sort whose merge
\* splits at the middle of a, so that no evaluation nests deeper than the
\* logarithm of the length.
RECURSIVE MergeDesc(_, _)
MergeDesc(a, b) ==
    IF Len(a) = 0 THEN b
    ELSE IF Len(b) = 0 THEN a
    ELSE LET i == (Len(a) + 1) \div 2
             k == Cardinality({j \in 1..Len(b) : b[j].id > a[i].id})
         IN  MergeDesc(SubSeq(a, 1, i - 1), SubSeq(b, 1, k))
                \o <<a[i]>>
                \o MergeDesc(SubSeq(a, i + 1, Len(a)), SubSeq(b, k + 1, Len(b)))

RECURSIVE SortByIdDesc(_)
SortByIdDesc(s) ==
    IF Len(s) <= 1 THEN s
    ELSE LET h == Len(s) \div 2
         IN  MergeDesc(SortByIdDesc(SubSeq(s, 1, h)),
                       SortByIdDesc(SubSeq(s, h + 1, Len(s))))

\* KeepIfUnseen that keeps every artifact
KeepIfUnseenAlways(st, artifact) ==
    [seen |-> st.seen \cup {artifact.name},
     latest |-> Append(st.latest, artifact)]

\* if (!seen.has(artifact.name)) { latestArtifacts.push(artifact);
\* seen.add(artifact.name) }
KeepIfUnseen(st, artifact) ==
    IF artifact.name \notin st.seen
    THEN [seen |-> st.seen \cup {artifact.name},
          latest |-> Append(st.latest, artifact)]
    ELSE st

\* The for loop over sortedArtifacts[lo..hi], in order, from the state st;
\* the left half is run to its end before the right half starts.
RECURSIVE KeepFirstOfName(_, _, _, _)
KeepFirstOfName(sorted, lo, hi, st) ==
    IF lo > hi THEN st
    ELSE IF lo = hi THEN KeepIfUnseen(st, sorted[lo])
    ELSE LET mid == (lo + hi) \div 2
         IN  CHOOSE r \in {KeepFirstOfName(sorted, mid + 1, hi, left) :
                             left \in {KeepFirstOfName(sorted, lo, mid, st)}} :
                 TRUE

\* filterLatestArtifacts without the sort
filterLatestArtifactsUnsorted(artifacts) ==
    KeepFirstOfName(artifacts, 1, Len(artifacts),
                    [seen |-> {}, latest |-> <<>>]).latest

filterLatestArtifacts(artifacts) ==
    LET sortedArtifacts == SortByIdDesc(artifacts)
    IN  KeepFirstOfName(sortedArtifacts, 1, Len(sortedArtifacts),
                        [seen |-> {}, latest |-> <<>>]).latest

\* ---------------------------------------------------------------- inputs

\* core.getInput values the runs are started with.
NameInputs == {"", "a1"}
TokenInputs == {"", "ghp_token"}
PatternInputs == {"", "a*", "b1"}
RepositoryInputs == {<<"o", "/", "r">>, <<"b", "a", "d">>}
RunIdInputs == {<<"7">>, <<"0">>, <<"-", "1">>, <<"x">>}
ArtifactIdsInputs ==
    {<<>>,
     <<"1">>,
     <<"1", ",", "2">>,
     <<"1", ",", "1">>,
     <<"3", ",", "1", ",", "4">>,
     <<" ", "2", " ", ",">>,
     <<",">>,
     <<"1", "x">>,
     <<"x">>}

\* Minimatch(pattern).match(name) on the names and patterns of the model.
NamesA == {"a1", "a2", "a3", "a4", "a5"}
MinimatchMatch(pattern, name) ==
    CASE pattern = "a*" -> name \in NamesA
      [] OTHER -> name = pattern

\* path.resolve(inputs.path), as a sequence of path segments.
resolvedPath == <<"root">>
\* path.join(resolvedPath, name)
PathJoin(p, name) == Append(p, name)

VARIABLES
    inputs,              \* the inputs record of run()
    pc,                  \* where run() is suspended, or how it ended
    findBy,              \* options.findBy, or NoFindBy
    artifactIds,         \* the parsed explicit ids
    artifacts,           \* the selected artifacts
    aggregatedArtifacts, \* listArtifactsFromPublicApi's accumulator
    page,                \* listArtifactsFromPublicApi's page
    totalCount,          \* listArtifactsFromPublicApi's totalCount
    response,            \* the last answer of listWorkflowRunArtifacts
    availableArtifacts,  \* what listArtifactsWithPagination returned
    downloadPromises,    \* the downloads issued, with their settlement
    chunkIndex,          \* the chunk Promise.all is awaited on (from 1)
    calls,               \* calls made to the collaborators, in order
    log,                 \* core.warning / info / setOutput / setFailed, in order
    flInput,             \* pure-function check: the argument
    flOutput,            \* pure-function check: the result
    flDone               \* pure-function check: applied

vars == <<inputs, pc, findBy, artifactIds, artifacts, aggregatedArtifacts, page,
          totalCount, response, availableArtifacts, downloadPromises,
          chunkIndex, calls, log, flInput, flOutput, flDone>>

runVars == <<inputs, pc, findBy, artifactIds, artifacts, aggregatedArtifacts,
             page, totalCount, response, availableArtifacts, downloadPromises,
             chunkIndex, calls, log>>

\* the state of the while loop of listArtifactsFromPublicApi
loopVars == <<page, totalCount, aggregatedArtifacts, response>>

flVars == <<flInput, flOutput, flDone>>

InputsSet ==
    {r \in [name : NameInputs, token : TokenInputs, repository : RepositoryInputs,
            runID : RunIdInputs, pattern : PatternInputs,
            mergeMultiple : BOOLEAN, artifactIds : ArtifactIdsInputs] :
        \* repository and run-id are read only into options.findBy, which
        \* exists only with a token: without one they keep their defaults
        r.token = "" => (r.repository = <<"o", "/", "r">> /\ r.runID = <<"7">>)}

RunInit ==
    /\ inputs \in InputsSet
    /\ pc = "start"
    /\ findBy = NoFindBy
    /\ artifactIds = <<>>
    /\ artifacts = <<>>
    /\ aggregatedArtifacts = <<>>
    /\ page = 1
    /\ totalCount = NoTotal
    /\ response = NoResponse
    /\ availableArtifacts = <<>>
    /\ downloadPromises = <<>>
    /\ chunkIndex = 0
    /\ calls = <<>>
    /\ log = <<>>

FlIdle ==
    /\ flInput = <<>>
    /\ flOutput = <<>>
    /\ flDone = FALSE

Init == RunInit /\ FlIdle

\* ---------------------------------------------------------------- run(): set-up

\* isSingleArtifactDownload that is never set
isSingleArtifactDownloadNever == FALSE

isSingleArtifactDownload == inputs.name # ""
\* isDownloadByIds that is never set
isDownloadByIdsNever == FALSE

isDownloadByIds == inputs.artifactIds # <<>>

\* BothNameAndIds that never holds
BothNameAndIdsNever(in) == FALSE

\* if (inputs.name && inputs.artifactIds)
BothNameAndIds(in) == in.name # "" /\ in.artifactIds # <<>>

\* const [repositoryOwner, repositoryName] = inputs.repository.split('/')
RepositoryParts(repository) ==
    LET parts == Split(repository, "/")
    IN  [owner |-> IF Len(parts) >= 1 THEN parts[1] ELSE <<>>,
         name |-> IF Len(parts) >= 2 THEN parts[2] ELSE <<>>]

\* if (!repositoryOwner || !repositoryName)
InvalidRepository(repository) ==
    LET p == RepositoryParts(repository)
    IN  p.owner = <<>> \/ p.name = <<>>

\* options.findBy as run() builds it; runID is parseInt(run-id input).
BuildFindBy(in) ==
    IF in.token # ""
    THEN [defined |-> TRUE,
          token |-> in.token,
          workflowRunId |-> ParseInt(in.runID),
          repositoryName |-> RepositoryParts(in.repository).name,
          repositoryOwner |-> RepositoryParts(in.repository).owner]
    ELSE NoFindBy

\* UsePublicApi that always takes the internal path
UsePublicApiNever(fb) == FALSE

\* if (options?.findBy) in listArtifactsWithPagination
UsePublicApi(fb) == fb.defined

\* if (!Number.isFinite(workflowRunId) || workflowRunId <= 0)
InvalidRunId(workflowRunId) ==
    ~IsFinite(workflowRunId) \/ workflowRunId.val <= 0

\* inputs.artifactIds.split(',').map(id => id.trim()).filter(id => id !== '')
NotEmptyText(t) == t # <<>>
artifactIdList(raw) ==
    LET pieces == Split(raw, ",")
        trimmed == [i \in 1..Len(pieces) |-> Trim(pieces[i])]
    IN  SelectSeq(trimmed, NotEmptyText)

\* numericId of each token; isNaN(numericId) throws
ParsedIds(list) == [i \in 1..Len(list) |-> ParseInt(list[i])]
IsNaNNum(n) == n.nan
AnyInvalidId(list) == \E i \in 1..Len(list) : IsNaNNum(ParseInt(list[i]))
\* the numericId values that artifactIdList.map returns
NumericIds(list) == [i \in 1..Len(list) |-> ParsedIds(list)[i].val]

\* ---------------------------------------------------------------- effects

Call(fn, arg) == [fn |-> fn, arg |-> arg]
Entry(kind, msg, arg) == [kind |-> kind, msg |-> msg, arg |-> arg]

\* run().catch(err => core.setFailed(...))
Throw(logNow, msg) ==
    /\ pc' = "failed"
    /\ log' = Append(logNow, Entry("setFailed", msg, <<>>))

\* The first step of listArtifactsWithPagination(listLatestOptions): the
\* checks of the public path and its first page request, or the internal
\* call.
StartListing(fb, callsNow, logNow) ==
    IF UsePublicApi(fb)
    THEN IF fb.token = ""
         THEN /\ Throw(logNow, "github-token is required")
              /\ calls' = callsNow
              /\ UNCHANGED loopVars
         ELSE IF InvalidRunId(fb.workflowRunId)
         THEN /\ Throw(logNow, "run-id must be a positive integer")
              /\ calls' = callsNow
              /\ UNCHANGED loopVars
         ELSE /\ pc' = "awaitPage"
              /\ page' = 1
              /\ totalCount' = NoTotal
              /\ aggregatedArtifacts' = <<>>
              /\ response' = NoResponse
              /\ calls' = Append(callsNow, Call("listWorkflowRunArtifacts", 1))
              /\ log' = logNow
    ELSE /\ pc' = "awaitListArtifacts"
         /\ calls' = Append(callsNow, Call("listArtifacts", "latest"))
         /\ log' = logNow
         /\ UNCHANGED loopVars

\* run() from its first line to its first await.
Start ==
    /\ pc = "start"
    /\ UNCHANGED <<inputs, artifacts, availableArtifacts, downloadPromises,
                   chunkIndex>>
    /\ UNCHANGED flVars
    /\ IF BothNameAndIds(inputs)
       THEN /\ Throw(log, "name and artifact-ids cannot be used together")
            /\ UNCHANGED <<findBy, artifactIds, calls>>
            /\ UNCHANGED loopVars
       ELSE IF inputs.token # "" /\ InvalidRepository(inputs.repository)
       THEN /\ Throw(log, "Invalid repository")
            /\ UNCHANGED <<findBy, artifactIds, calls>>
            /\ UNCHANGED loopVars
       ELSE /\ findBy' = BuildFindBy(inputs)
            /\ IF isSingleArtifactDownload
               THEN /\ pc' = "awaitGetArtifact"
                    /\ calls' = Append(calls, Call("getArtifact", inputs.name))
                    /\ UNCHANGED <<artifactIds, log>>
                    /\ UNCHANGED loopVars
               ELSE IF isDownloadByIds
               THEN LET list == artifactIdList(inputs.artifactIds)
                    IN  IF Len(list) = 0
                        THEN /\ Throw(log, "No valid artifact IDs provided")
                             /\ UNCHANGED <<artifactIds, calls>>
                             /\ UNCHANGED loopVars
                        ELSE IF AnyInvalidId(list)
                        THEN /\ Throw(log, "Invalid artifact ID")
                             /\ UNCHANGED <<artifactIds, calls>>
                             /\ UNCHANGED loopVars
                        ELSE /\ artifactIds' = NumericIds(list)
                             /\ StartListing(BuildFindBy(inputs), calls, log)
               ELSE /\ UNCHANGED artifactIds
                    /\ StartListing(BuildFindBy(inputs), calls, log)

\* ---------------------------------------------------------------- selection

\* SelectByIds that follows the order of the requested ids
RECURSIVE SelectByIdsInRequestOrder(_, _)
SelectByIdsInRequestOrder(available, ids) ==
    IF ids = <<>> THEN <<>>
    ELSE LET HasId(a) == a.id = Head(ids)
         IN  SelectSeq(available, HasId)
                \o SelectByIdsInRequestOrder(available, Tail(ids))

\* availableArtifacts.filter(artifact => artifactIds.includes(artifact.id))
SelectByIds(available, ids) ==
    LET Wanted(a) == Includes(ids, a.id)
    IN  SelectSeq(available, Wanted)

\* NoneFound that never holds
NoneFoundNever(selected) == FALSE

\* if (artifacts.length === 0)
NoneFound(selected) == Len(selected) = 0

\* if (artifacts.length < artifactIds.length)
WarnMissing(selected, ids) == Len(selected) < Len(ids)

\* artifactIds.filter(id => !foundIds.includes(id))
MissingIds(selected, ids) ==
    LET foundIds == [i \in 1..Len(selected) |-> selected[i].id]
        NotFound(id) == ~Includes(foundIds, id)
    IN  SelectSeq(ids, NotFound)

\* artifacts.filter(artifact => matcher.match(artifact.name))
SelectByPattern(available, pattern) ==
    LET Matches(a) == MinimatchMatch(pattern, a.name)
    IN  SelectSeq(available, Matches)

\* ---------------------------------------------------------------- downloads

\* DownloadPath without the test of the size of the selection
DownloadPathIgnoresCount(artifact, single, merge, count) ==
    IF single \/ merge
    THEN resolvedPath
    ELSE PathJoin(resolvedPath, artifact.name)

\* the path option of one downloadArtifact call
DownloadPath(artifact, single, merge, count) ==
    IF single \/ merge \/ count = 1
    THEN resolvedPath
    ELSE PathJoin(resolvedPath, artifact.name)

\* IssueDownload that passes no expectedHash
IssueDownloadNoHash(artifact, single, merge, count) ==
    [name |-> artifact.name,
     id |-> artifact.id,
     path |-> DownloadPath(artifact, single, merge, count),
     expectedHash |-> Undefined,
     state |-> "pending",
     digestMismatch |-> FALSE]

\* One element of downloadPromises: the call is made when the element is
\* built; state and digestMismatch are the settlement of its promise.
IssueDownload(artifact, single, merge, count) ==
    [name |-> artifact.name,
     id |-> artifact.id,
     path |-> DownloadPath(artifact, single, merge, count),
     expectedHash |-> artifact.digest,
     state |-> "pending",
     digestMismatch |-> FALSE]

\* artifacts.map(artifact => ({name, promise: downloadArtifact(...)})): the
\* downloads that are issued when the map runs.
IssuedAtMap(arts) == 1..Len(arts)

DownloadCalls(promises, issued) ==
    [i \in 1..Cardinality(issued) |->
        Call("downloadArtifact",
             [id |-> promises[i].id, path |-> promises[i].path,
              expectedHash |-> promises[i].expectedHash])]

\* Success without the setOutput
SuccessWithoutOutput(logNow, count) ==
    logNow \o <<Entry("info", "Total downloaded", count),
                Entry("info", "finished successfully", 0)>>

\* The three last lines of run().
Success(logNow, count) ==
    logNow \o <<Entry("info", "Total downloaded", count),
                Entry("setOutput", "download-path", resolvedPath),
                Entry("info", "finished successfully", 0)>>

\* run() from the selected list to the first await of a chunk, or to its
\* end when nothing is selected.
Download(arts, single, callsNow, logNow) ==
    LET promises == [i \in 1..Len(arts) |->
                        IssueDownload(arts[i], single, inputs.mergeMultiple,
                                      Len(arts))]
    IN  /\ artifacts' = arts
        /\ downloadPromises' = promises
        /\ calls' = callsNow \o DownloadCalls(promises, IssuedAtMap(arts))
        /\ IF Len(chunk(promises, PARALLEL_DOWNLOADS)) = 0
           THEN /\ pc' = "done"
                /\ chunkIndex' = 0
                /\ log' = Success(logNow, Len(arts))
           ELSE /\ pc' = "awaitChunk"
                /\ chunkIndex' = 1
                /\ log' = logNow

\* run() from the return of listArtifactsWithPagination on.
AfterListing(available, callsNow) ==
    /\ availableArtifacts' = available
    /\ IF isDownloadByIds
       THEN LET selected == SelectByIds(available, artifactIds)
            IN  IF NoneFound(selected)
                   THEN /\ Throw(log, "None of the provided artifact IDs were found")
                     /\ calls' = callsNow
                     /\ artifacts' = selected
                     /\ UNCHANGED <<downloadPromises, chunkIndex>>
                ELSE Download(selected, FALSE, callsNow,
                         IF WarnMissing(selected, artifactIds)
                         THEN Append(log,
                                  Entry("warning", "Could not find ids",
                                        MissingIds(selected, artifactIds)))
                         ELSE log)
       ELSE IF inputs.pattern # ""
       THEN Download(SelectByPattern(available, inputs.pattern), FALSE,
                     callsNow, log)
       ELSE Download(available, FALSE, callsNow, log)

\* ---------------------------------------------------------------- collaborators

Digest(id) ==
    CASE id % 3 = 0 -> Null
      [] id % 3 = 1 -> "sha256:x"
      [] OTHER -> "sha256:y"

Api(id, name) ==
    [id |-> id, name |-> name, size_in_bytes |-> 10 * id, digest |-> Digest(id)]

Art(id, name) == mapApiArtifact(Api(id, name))

ShortNames == {"a1", "b1"}
ShortArtifacts == {Art(id, name) : id \in 1..2, name \in ShortNames}

SeqsUpTo(S, n) == UNION {[1..k -> S] : k \in 0..n}

LongNames == <<"a1", "b1", "a2", "b2", "a3", "b3", "b4", "b5", "b6", "b7">>
LongList(n) == [k \in 1..n |-> Art(k, LongNames[k])]

\* What artifactClient.listArtifacts may answer: every list of at most two
\* artifacts (ids and names may repeat), and lists of distinct artifacts that
\* fill one chunk and more than one chunk.
InternalListings ==
    SeqsUpTo(ShortArtifacts, 2)
        \cup {LongList(n) : n \in {PARALLEL_DOWNLOADS, MaxSelected}}

\* What artifactClient.getArtifact may answer.
GetArtifactAnswers ==
    {[kind |-> "found", artifact |-> Art(id, "a1")] : id \in 1..2}
        \cup {[kind |-> k, artifact |-> Art(1, "a1")] :
                 k \in {"undefined", "throws"}}

\* A page of n records of the public endpoint, ids running on from the pages
\* before it, names alternating.
FillerPage(n, p) ==
    [j \in 1..n |->
        Api(PUBLIC_API_PAGE_SIZE * (p - 1) + j,
            IF j % 2 = 1 THEN "a2" ELSE "b2")]

\* What one page request may answer.  The first page: nothing, any one
\* record, two records of one name, of two names in either order of id, five
\* records, a full page.
\* A later page: nothing, one record, two records, five records, a full page.
ApiShortPages(p) ==
    IF p = 1
    THEN SeqsUpTo({Api(id, name) : id \in 1..2, name \in ShortNames}, 1)
            \cup {<<Api(1, "a1"), Api(2, "a1")>>,
                  <<Api(2, "b1"), Api(1, "a1")>>,
                  <<Api(1, "a1"), Api(2, "b1")>>,
                  FillerPage(5, p)}
    ELSE {<<>>, <<Api(1, "a1")>>, <<Api(2, "b1"), Api(1, "a1")>>,
          FillerPage(5, p)}

ApiPages(p) == ApiShortPages(p) \cup {FillerPage(PUBLIC_API_PAGE_SIZE, p)}

\* response.data.total_count: the first response carries a total or none; a
\* later response repeats the total reported before or carries none.
TotalCounts(p, kept) ==
    IF p = 1 THEN {NoTotal, Total(105), Total(200)} ELSE {NoTotal, kept}

\* ---------------------------------------------------------------- run(): listing

\* artifactClient.getArtifact settles.
GetArtifactReturns ==
    /\ pc = "awaitGetArtifact"
    /\ UNCHANGED <<inputs, findBy, artifactIds, availableArtifacts>>
    /\ UNCHANGED loopVars
    /\ UNCHANGED flVars
    /\ \E answer \in GetArtifactAnswers :
          IF answer.kind = "throws"
          THEN /\ Throw(log, "Artifact not found (thrown by getArtifact)")
               /\ UNCHANGED <<artifacts, downloadPromises, chunkIndex, calls>>
          ELSE IF answer.kind = "undefined"
          THEN /\ Throw(log, "Artifact not found")
               /\ UNCHANGED <<artifacts, downloadPromises, chunkIndex, calls>>
          ELSE Download(<<answer.artifact>>, TRUE, calls, log)

\* artifactClient.listArtifacts settles: response.artifacts is returned as
\* it is.
ListArtifactsReturns ==
    /\ pc = "awaitListArtifacts"
    /\ UNCHANGED <<inputs, findBy, artifactIds>>
    /\ UNCHANGED loopVars
    /\ UNCHANGED flVars
    /\ \E listed \in InternalListings : AfterListing(listed, calls)

\* typeof response.data.total_count === 'number' ? it : the one kept
NewTotalCount(kept, total_count) ==
    IF total_count.defined THEN total_count ELSE kept

\* LastPage with > for >= in the comparison with the total
LastPageOffByOne(aggregatedLength, total, pageLength) ==
    \/ total.defined /\ aggregatedLength > total.val
    \/ pageLength < PUBLIC_API_PAGE_SIZE

\* fetchedAllFromTotal || fetchedPartialPage
LastPage(aggregatedLength, total, pageLength) ==
    \/ total.defined /\ aggregatedLength >= total.val
    \/ pageLength < PUBLIC_API_PAGE_SIZE

\* LoopBreaks with a cap of two pages
LoopBreaksCapped(aggregated, kept, apiArtifacts, total_count) ==
    \/ Len(apiArtifacts) = 0
    \/ LastPage(Len(aggregated) + Len(apiArtifacts),
                NewTotalCount(kept, total_count), Len(apiArtifacts))
    \/ Len(aggregated) >= PUBLIC_API_PAGE_SIZE

\* The loop leaves after this response.
LoopBreaks(aggregated, kept, apiArtifacts, total_count) ==
    \/ Len(apiArtifacts) = 0
    \/ LastPage(Len(aggregated) + Len(apiArtifacts),
                NewTotalCount(kept, total_count), Len(apiArtifacts))

\* PublicApiResult that returns the accumulator whatever latest is
PublicApiResultUnfiltered(aggregated, latest) == aggregated

\* if (latest) return filterLatestArtifacts(aggregatedArtifacts)
PublicApiResult(aggregated, latest) ==
    IF latest THEN filterLatestArtifacts(aggregated) ELSE aggregated

\* NextPage that stays on the page it is on
NextPageSame(p) == p

\* page++
NextPage(p) == p + 1

\* One turn of the while loop on the answer (apiArtifacts, total_count), and
\* what follows the loop when it breaks.
PageAnswer(apiArtifacts, total_count) ==
    /\ response' = [artifacts |-> apiArtifacts, total_count |-> total_count]
    /\ totalCount' = NewTotalCount(totalCount, total_count)
    /\ aggregatedArtifacts' =
          aggregatedArtifacts \o MapApiArtifacts(apiArtifacts)
    /\ IF LoopBreaks(aggregatedArtifacts, totalCount, apiArtifacts,
                     total_count)
       THEN /\ page' = page
            /\ \E available \in
                   {PublicApiResult(aggregatedArtifacts', TRUE)} :
                   AfterListing(available, calls)
       ELSE /\ page' = NextPage(page)
            /\ pc' = "awaitPage"
            /\ calls' = Append(calls,
                            Call("listWorkflowRunArtifacts", NextPage(page)))
            /\ UNCHANGED <<artifacts, availableArtifacts,
                           downloadPromises, chunkIndex, log>>

\* octokit.rest.actions.listWorkflowRunArtifacts settles.  The endpoint lets
\* the loop go on for fewer than MaxPages pages.
PageReturns ==
    /\ pc = "awaitPage"
    /\ UNCHANGED <<inputs, findBy, artifactIds>>
    /\ UNCHANGED flVars
    /\ \E apiArtifacts \in ApiPages(page),
          total_count \in TotalCounts(page, totalCount) :
          /\ page < MaxPages
                \/ LoopBreaks(aggregatedArtifacts, totalCount, apiArtifacts,
                              total_count)
          /\ PageAnswer(apiArtifacts, total_count)

\* ---------------------------------------------------------------- run(): chunks

\* Indices (from 1) of the downloads of chunk c.
ChunkMembers(c) ==
    {i \in 1..Len(downloadPromises) :
        (i - 1) \div PARALLEL_DOWNLOADS = c - 1}

NumChunks == Len(chunk(downloadPromises, PARALLEL_DOWNLOADS))

\* Promise.all has been called on the chunk of download i: its promise has a
\* rejection handler.  The promises are all created by the map of line 299;
\* the handlers come chunk by chunk, with the Promise.all of line 316.
IsHandled(i) == (i - 1) \div PARALLEL_DOWNLOADS < chunkIndex

\* What the process does when a promise without handler is rejected is the
\* runtime's: Node.js from version 15 on ends the process on an unhandled
\* rejection (its default, --unhandled-rejections=throw), earlier versions
\* and other settings only warn and run() goes on.
OnUnhandledRejection == {"awaitChunk", "terminated"}

\* A downloadArtifact promise settles: fulfilled, with or without a digest
\* mismatch, or rejected.
DownloadSettles ==
    /\ pc = "awaitChunk"
    /\ \E i \in 1..Len(downloadPromises) :
          /\ downloadPromises[i].state = "pending"
          /\ \E outcome \in {"ok", "mismatch", "rejected"} :
                /\ downloadPromises' =
                      [downloadPromises EXCEPT
                          ![i].state = IF outcome = "rejected" THEN "rejected"
                                       ELSE "fulfilled",
                          ![i].digestMismatch = (outcome = "mismatch")]
                /\ IF outcome = "rejected" /\ ~IsHandled(i)
                   THEN pc' \in OnUnhandledRejection
                   ELSE pc' = pc
    /\ UNCHANGED <<inputs, findBy, artifactIds, artifacts,
                   availableArtifacts, chunkIndex, calls, log>>
    /\ UNCHANGED loopVars
    /\ UNCHANGED flVars

\* WarnsDigest with the test negated
WarnsDigestNegated(outcome) == ~outcome.digestMismatch

\* if (outcome.digestMismatch)
WarnsDigest(outcome) == outcome.digestMismatch

\* The warnings of the inner for loop over the results of one chunk.
RECURSIVE ChunkWarnings(_, _, _, _)
ChunkWarnings(chunkItems, results, i, acc) ==
    IF i > Len(results) THEN acc
    ELSE ChunkWarnings(chunkItems, results, i + 1,
             IF WarnsDigest(results[i])
             THEN Append(acc, Entry("warning", "digest validation failed",
                                    chunkItems[i].name))
             ELSE acc)

\* await Promise.all(chunkPromises) returns: the results of the chunk are
\* looked at, and the next chunk is awaited or run() ends.
ChunkResolves ==
    /\ pc = "awaitChunk"
    /\ \A i \in ChunkMembers(chunkIndex) :
          downloadPromises[i].state = "fulfilled"
    /\ LET items == chunk(downloadPromises, PARALLEL_DOWNLOADS)[chunkIndex]
           logNow == ChunkWarnings(items, items, 1, log)
       IN  IF chunkIndex < NumChunks
           THEN /\ chunkIndex' = chunkIndex + 1
                /\ pc' = "awaitChunk"
                /\ log' = logNow
           ELSE /\ chunkIndex' = chunkIndex
                /\ pc' = "done"
                /\ log' = Success(logNow, Len(artifacts))
    /\ UNCHANGED <<inputs, findBy, artifactIds, artifacts, availableArtifacts,
                   downloadPromises, calls>>
    /\ UNCHANGED loopVars
    /\ UNCHANGED flVars

\* await Promise.all(chunkPromises) throws: one promise of the chunk is
\* rejected.
ChunkRejects ==
    /\ pc = "awaitChunk"
    /\ \E i \in ChunkMembers(chunkIndex) :
          downloadPromises[i].state = "rejected"
    /\ Throw(log, "download failed")
    /\ UNCHANGED <<inputs, findBy, artifactIds, artifacts, availableArtifacts,
                   downloadPromises, chunkIndex, calls>>
    /\ UNCHANGED loopVars
    /\ UNCHANGED flVars

Next ==
    \/ Start
    \/ GetArtifactReturns
    \/ ListArtifactsReturns
    \/ PageReturns
    \/ DownloadSettles
    \/ ChunkResolves
    \/ ChunkRejects

Spec == Init /\ [][Next]_vars

\* ---------------------------------------------------------------- filterLatestArtifacts alone

LatestArtifacts == {Art(id, name) : id \in 1..3, name \in ShortNames}

RunIdle ==
    /\ inputs = [name |-> "", token |-> "", repository |-> <<"o", "/", "r">>,
                 runID |-> <<"7">>, pattern |-> "", mergeMultiple |-> FALSE,
                 artifactIds |-> <<>>]
    /\ pc = "idle"
    /\ findBy = NoFindBy
    /\ artifactIds = <<>>
    /\ artifacts = <<>>
    /\ aggregatedArtifacts = <<>>
    /\ page = 1
    /\ totalCount = NoTotal
    /\ response = NoResponse
    /\ availableArtifacts = <<>>
    /\ downloadPromises = <<>>
    /\ chunkIndex = 0
    /\ calls = <<>>
    /\ log = <<>>

LatestInit ==
    /\ RunIdle
    /\ flInput \in SeqsUpTo(LatestArtifacts, MaxLen)
    /\ flOutput = <<>>
    /\ flDone = FALSE

ApplyFilterLatest ==
    /\ ~flDone
    /\ flOutput' = filterLatestArtifacts(flInput)
    /\ flDone' = TRUE
    /\ UNCHANGED flInput
    /\ UNCHANGED runVars

LatestNext == ApplyFilterLatest

SpecLatest == LatestInit /\ [][LatestNext]_vars

\* ---------------------------------------------------------------- the loop against any endpoint

\* octokit.rest.actions.listWorkflowRunArtifacts settles, with an endpoint
\* that owes the loop nothing: every page, the last modelled one included,
\* may be full and without a total.  Answers are modelled for the pages up to
\* MaxPages.
PageReturnsUnforced ==
    /\ pc = "awaitPage"
    /\ page <= MaxPages
    /\ UNCHANGED <<inputs, findBy, artifactIds>>
    /\ UNCHANGED flVars
    /\ \E apiArtifacts \in ApiPages(page),
          total_count \in TotalCounts(page, totalCount) :
          PageAnswer(apiArtifacts, total_count)

\* Runs that list: a token, no name.
PagingInit ==
    /\ Init
    /\ inputs.token # ""
    /\ inputs.name = ""

PagingNext ==
    \/ Start
    \/ PageReturnsUnforced

\* What a step of PageReturnsUnforced does to pc and page: the awaited
\* request settles, and run() leaves the loop or requests the next page.
PageSettles ==
    /\ pc = "awaitPage"
    /\ page <= MaxPages
    /\ pc' \in {"awaitPage", "awaitChunk", "done", "failed"}
    /\ page' \in {page, NextPage(page)}

\* Every page request is answered in the end: the await of line 98 resumes.
SpecPaging ==
    PagingInit /\ [][PagingNext]_vars /\ WF_<<pc, page>>(PageSettles)

\* ---------------------------------------------------------------- properties

Range(s) == {s[i] : i \in 1..Len(s)}
NamesOf(s) == {s[i].name : i \in 1..Len(s)}
IdsOf(s) == {s[i].id : i \in 1..Len(s)}

IsCallOf(fn, c) == c.fn = fn
IsPageCall(c) == IsCallOf("listWorkflowRunArtifacts", c)
IsListCall(c) == IsCallOf("listArtifacts", c)
IsGetCall(c) == IsCallOf("getArtifact", c)
IsDownloadCall(c) == IsCallOf("downloadArtifact", c)
PageCalls == SelectSeq(calls, IsPageCall)
ListCalls == SelectSeq(calls, IsListCall)
DownloadCallsMade == SelectSeq(calls, IsDownloadCall)

IsSetOutput(e) == e.kind = "setOutput"
IsSetFailed(e) == e.kind = "setFailed"
IsDigestWarning(e) == e.kind = "warning" /\ e.msg = "digest validation failed"
IsMissingWarning(e) == e.kind = "warning" /\ e.msg = "Could not find ids"

\* listArtifactsWithPagination was called and has returned.
Listed ==
    /\ Len(PageCalls) + Len(ListCalls) > 0
    /\ pc \notin {"awaitListArtifacts", "awaitPage"}

\* Downloads whose call has been made, and those among them not yet settled.
Issued == 1..Len(DownloadCallsMade)
InFlight == {i \in Issued : downloadPromises[i].state = "pending"}
ChunkOf(i) == (i - 1) \div PARALLEL_DOWNLOADS + 1

\* C1 (as claimed): at every moment of run() at most PARALLEL_DOWNLOADS (5)
\* downloadArtifact calls have been issued and have not yet settled.
C1_AtMostWidthInFlight == Cardinality(InFlight) <= PARALLEL_DOWNLOADS

\* C2 (as claimed): a download of chunk N+1 is issued only when every download
\* of chunk N has settled: no issued download has an unsettled download in an
\* earlier chunk.
C2_ChunkSynchronous ==
    \A i \in Issued : \A j \in Issued :
        ChunkOf(j) < ChunkOf(i) => downloadPromises[j].state # "pending"

\* Names of the digest warnings logged, in order, and names of the downloads
\* of the chunks before chunk c that reported a mismatch, in order.
HasMismatch(p) == p.digestMismatch
WarnedNames ==
    LET w == SelectSeq(log, IsDigestWarning)
    IN  [i \in 1..Len(w) |-> w[i].arg]
MismatchedBefore(c) ==
    LET m == SelectSeq(SubSeq(downloadPromises, 1,
                              Min(Len(downloadPromises),
                                  (c - 1) * PARALLEL_DOWNLOADS)),
                       HasMismatch)
    IN  [i \in 1..Len(m) |-> m[i].name]

\* C3: digest mismatches are isolated per artifact.  When run() is done every
\* download is fulfilled, the digest warnings are, in order, exactly the
\* names of the downloads that reported a mismatch (one each, none for the
\* others), and the run ends with the success message and no setFailed;
\* while chunks are awaited the warnings are those of the chunks already
\* looked at; and a run with downloads fails only when a download is rejected,
\* never because of a mismatch.
C3_DigestMismatchIsolated ==
    /\ pc = "done" =>
          /\ \A i \in 1..Len(downloadPromises) :
                downloadPromises[i].state = "fulfilled"
          /\ WarnedNames = MismatchedBefore(NumChunks + 1)
          /\ log[Len(log)].kind = "info"
          /\ log[Len(log)].msg = "finished successfully"
          /\ SelectSeq(log, IsSetFailed) = <<>>
    /\ pc = "awaitChunk" => WarnedNames = MismatchedBefore(chunkIndex)
    /\ (pc = "failed" /\ Len(downloadPromises) > 0) =>
          \E i \in 1..Len(downloadPromises) :
              downloadPromises[i].state = "rejected"

\* C3 witness: a finished run of two chunks with a mismatch in each chunk and
\* a download without mismatch.
C3_Witness ==
    /\ pc = "done"
    /\ Len(downloadPromises) > PARALLEL_DOWNLOADS
    /\ downloadPromises[2].digestMismatch
    /\ ~downloadPromises[3].digestMismatch
    /\ downloadPromises[PARALLEL_DOWNLOADS + 1].digestMismatch

\* The pages fetched before page p, all full, as the accumulator holds them.
RECURSIVE FullPagesBefore(_)
FullPagesBefore(p) ==
    IF p <= 1 THEN <<>>
    ELSE FullPagesBefore(p - 1)
            \o MapApiArtifacts(FillerPage(PUBLIC_API_PAGE_SIZE, p - 1))

\* The last answer is short, or the running total has reached the total.
StopPage ==
    \/ Len(response.artifacts) < PUBLIC_API_PAGE_SIZE
    \/ totalCount.defined /\ Len(aggregatedArtifacts) >= totalCount.val

PublicListed == Len(PageCalls) > 0 /\ pc # "awaitPage"

C5_ListingSourcesExclusive ==
    /\ inputs.token # "" => Len(ListCalls) = 0
    /\ inputs.token = "" => Len(PageCalls) = 0
    /\ ~(Len(ListCalls) > 0 /\ Len(PageCalls) > 0)
    /\ Len(ListCalls) <= 1

\* C5 witness: a finished run with a token that fetched two pages.
C5_Witness ==
    /\ inputs.token # ""
    /\ pc = "done"
    /\ Len(PageCalls) = 2
    /\ Len(artifacts) > 0

\* out holds, for each name of in, exactly one artifact, an artifact of in of
\* that name with the greatest id, and nothing else.
LatestPerName(out, in) ==
    /\ NamesOf(out) = NamesOf(in)
    /\ \A i \in 1..Len(out) : \A j \in 1..Len(out) :
          out[i].name = out[j].name => i = j
    /\ \A i \in 1..Len(out) :
          /\ out[i] \in Range(in)
          /\ \A k \in 1..Len(in) :
                in[k].name = out[i].name => in[k].id <= out[i].id

\* C6: filterLatestArtifacts returns exactly one artifact for each name of
\* its input, the input artifact of that name with the greatest id, and no
\* artifact of another name.
C6_FilterLatest == flDone => LatestPerName(flOutput, flInput)

\* C6 witness: an input with a repeated name whose greatest id does not come
\* first has been filtered.
C6_Witness ==
    /\ flDone
    /\ Len(flInput) = 3
    /\ flInput[1].name = flInput[3].name
    /\ flInput[1].id < flInput[3].id
    /\ Len(flOutput) = 2

NamesDistinct(s) ==
    \A i \in 1..Len(s) : \A j \in 1..Len(s) : s[i].name = s[j].name => i = j

\* C7 (as claimed): whichever listing path returned, the enumerated set that
\* selection works on holds at most one artifact per name.
C7_EnumeratedDeduplicated == Listed => NamesDistinct(availableArtifacts)

\* C7 (amended): on the public path (a token is supplied) the enumerated set
\* holds exactly one artifact per name fetched, the one with the greatest id
\* among the fetched records.
C7_PublicEnumeratedLatest ==
    (Listed /\ inputs.token # "") =>
        LatestPerName(availableArtifacts, aggregatedArtifacts)

\* C7 witness: the public path fetched more records than names and returned
\* two artifacts.
C7_Witness ==
    /\ Listed
    /\ inputs.token # ""
    /\ Len(aggregatedArtifacts) > PUBLIC_API_PAGE_SIZE
    /\ Len(availableArtifacts) >= 2
    /\ Len(availableArtifacts) < Len(aggregatedArtifacts)

\* The requested ids that no enumerated artifact has, in request order.
AbsentIds ==
    LET Absent(id) == id \notin IdsOf(availableArtifacts)
    IN  SelectSeq(artifactIds, Absent)

MissingWarnings == SelectSeq(log, IsMissingWarning)

\* C8 (as claimed): in by-ID mode with a non-empty selection the missing-ids
\* warning is emitted if and only if a requested id is absent from the
\* enumerated set, and it lists exactly the absent requested ids in request
\* order.
C8_MissingIdsWarning ==
    (isDownloadByIds /\ Listed /\ Len(artifacts) > 0) =>
        /\ Len(MissingWarnings) <= 1
        /\ Len(MissingWarnings) = 1 <=> AbsentIds # <<>>
        /\ Len(MissingWarnings) = 1 => MissingWarnings[1].arg = AbsentIds

\* C9: in by-ID mode, when no enumerated artifact has a requested id, run()
\* ends with the 'None of the provided artifact IDs were found' failure, no
\* downloadArtifact call is made and no output is set.
C9_NoneFoundIsFatal ==
    (isDownloadByIds /\ Listed
        /\ IdsOf(availableArtifacts) \cap Range(artifactIds) = {}) =>
        /\ pc = "failed"
        /\ log[Len(log)].kind = "setFailed"
        /\ log[Len(log)].msg = "None of the provided artifact IDs were found"
        /\ Len(DownloadCallsMade) = 0
        /\ downloadPromises = <<>>
        /\ SelectSeq(log, IsSetOutput) = <<>>

\* C9 witness: artifacts were enumerated, none with a requested id.
C9_Witness ==
    /\ isDownloadByIds
    /\ Listed
    /\ Len(availableArtifacts) = 2
    /\ IdsOf(availableArtifacts) \cap Range(artifactIds) = {}
    /\ pc = "failed"

\* The run-id input is not a number or is not greater than zero.
RunIdNotPositive ==
    LET n == ParseInt(inputs.runID) IN n.nan \/ n.val <= 0

\* C10 (as claimed): with a token and a run id that is non-numeric or not
\* positive, run() fails without any call to a collaborator, in every mode.
C10_InvalidRunIdNoCalls ==
    (inputs.token # "" /\ RunIdNotPositive) =>
        /\ pc \in {"start", "failed"}
        /\ Len(calls) = 0

\* The name input and the artifact-ids input are both non-empty.
NameAndIdsGiven == inputs.name # "" /\ inputs.artifactIds # <<>>

\* C11: when the name input and the artifact-ids input are both non-empty,
\* run() makes no call to any collaborator (no getArtifact, no listArtifacts,
\* no page request, no downloadArtifact) and ends in setFailed with the
\* 'cannot be used together' message, whatever token, repository, run-id,
\* pattern and merge-multiple are.
C11_NameAndIdsExclusive ==
    NameAndIdsGiven =>
        /\ pc \in {"start", "failed"}
        /\ calls = <<>>
        /\ downloadPromises = <<>>
        /\ pc = "failed" =>
              /\ Len(log) = 1
              /\ log[1].kind = "setFailed"
              /\ log[1].msg = "name and artifact-ids cannot be used together"

\* C11 witness: a run with both inputs, a token, a malformed repository, a
\* pattern and merge-multiple has failed.
C11_Witness ==
    /\ NameAndIdsGiven
    /\ pc = "failed"
    /\ inputs.token # ""
    /\ inputs.repository = <<"b", "a", "d">>
    /\ inputs.pattern # ""
    /\ inputs.mergeMultiple

\* by-ID mode: no name, a non-empty artifact-ids input.
ByIdMode == inputs.name = "" /\ inputs.artifactIds # <<>>
\* by-exact-name mode: a name, no artifact-ids input.
ByNameMode == inputs.name # "" /\ inputs.artifactIds = <<>>
\* by-pattern mode and default mode.
ByPatternMode ==
    inputs.name = "" /\ inputs.artifactIds = <<>> /\ inputs.pattern # ""
DefaultMode ==
    inputs.name = "" /\ inputs.artifactIds = <<>> /\ inputs.pattern = ""

\* t is an integer literal: an optional sign, then one digit or more, and
\* nothing else.
IsIntegerLiteral(t) ==
    LET body == IF t # <<>> /\ t[1] \in {"-", "+"} THEN Tail(t) ELSE t
    IN  body # <<>> /\ \A i \in 1..Len(body) : IsDigit(body[i])

\* The tokens of the artifact-ids input: split at commas, trimmed, the empty
\* ones dropped.
RequestedTokens == artifactIdList(inputs.artifactIds)

\* C12 (as claimed): in by-ID mode, when no token remains or some remaining
\* token is not strictly an integer literal (digits after a numeric prefix
\* included, as in '1x'), run() fails before any listing or download call.
C12_MalformedIdsAreFatal ==
    (ByIdMode
        /\ \/ RequestedTokens = <<>>
           \/ \E i \in 1..Len(RequestedTokens) :
                  ~IsIntegerLiteral(RequestedTokens[i])) =>
        /\ pc \in {"start", "failed"}
        /\ Len(ListCalls) = 0
        /\ Len(PageCalls) = 0
        /\ Len(DownloadCallsMade) = 0

GetCalls == SelectSeq(calls, IsGetCall)

\* The failures of by-exact-name mode when the lookup gives no artifact.
NotFoundMessages ==
    {"Artifact not found", "Artifact not found (thrown by getArtifact)"}

\* C13: in by-exact-name mode the artifact is looked up with one getArtifact
\* call for the name given, and neither listArtifacts nor a page request is
\* ever made.  When the lookup returned an artifact, the selection is that one
\* artifact and exactly one downloadArtifact call is made, for its id.  When
\* the lookup threw or returned no artifact, run() ends in setFailed with a
\* not-found message and no downloadArtifact call is made.  A run never
\* finishes with an empty selection.
C13_ByNameDirectLookup ==
    ByNameMode =>
        /\ Len(ListCalls) = 0
        /\ Len(PageCalls) = 0
        /\ Len(GetCalls) <= 1
        /\ Len(GetCalls) = 1 => GetCalls[1].arg = inputs.name
        /\ pc \in {"awaitGetArtifact", "awaitChunk", "done"} =>
              Len(GetCalls) = 1
        /\ (pc \in {"awaitChunk", "done"}
               \/ (pc = "failed" /\ downloadPromises # <<>>)) =>
              /\ Len(artifacts) = 1
              /\ Len(DownloadCallsMade) = 1
              /\ DownloadCallsMade[1].arg.id = artifacts[1].id
        /\ (pc = "failed" /\ downloadPromises = <<>>) =>
              /\ Len(DownloadCallsMade) = 0
              /\ log[Len(log)].kind = "setFailed"
              /\ Len(GetCalls) = 1 => log[Len(log)].msg \in NotFoundMessages
        /\ pc = "awaitGetArtifact" => Len(DownloadCallsMade) = 0

\* C13 witness: a by-name run with a token has finished with the one download
\* of the artifact the lookup returned.
C13_Witness ==
    /\ ByNameMode
    /\ inputs.token # ""
    /\ pc = "done"
    /\ Len(GetCalls) = 1
    /\ Len(DownloadCallsMade) = 1
    /\ DownloadCallsMade[1].arg.id = 2

\* run() has finished successfully with nothing selected.
DoneEmpty == pc = "done" /\ Len(artifacts) = 0

\* C14 (as claimed): only in default mode (no name, no artifact-ids, no
\* pattern) can run() finish successfully with an empty selection; in by-name,
\* by-ID and by-pattern modes an empty selection ends in a failure.
C14_OnlyDefaultMayBeEmpty == DoneEmpty => DefaultMode

\* C14 (amended): run() can finish successfully with an empty selection only
\* in default mode and in by-pattern mode, and then it makes no download call;
\* a by-name or by-ID run that finishes successfully has selected at least one
\* artifact, and a by-ID run whose listing returned without a selected
\* artifact has failed.
C14_EmptyOnlyWithoutNameAndIds ==
    /\ DoneEmpty =>
          /\ ByPatternMode \/ DefaultMode
          /\ Len(DownloadCallsMade) = 0
    /\ ((ByNameMode \/ ByIdMode) /\ pc = "done") => Len(artifacts) >= 1
    /\ (ByIdMode /\ Listed /\ Len(artifacts) = 0) => pc = "failed"

\* C14 witness: a by-pattern run whose listing returned artifacts, none of
\* them matching, has finished successfully with nothing selected.
C14_Witness ==
    /\ ByPatternMode
    /\ DoneEmpty
    /\ Len(availableArtifacts) > 0
    /\ log[Len(log)].msg = "finished successfully"

\* Where the rule sends the i-th selected artifact.
RuleSendsToRoot ==
    inputs.name # "" \/ inputs.mergeMultiple \/ Len(artifacts) = 1
RulePath(i) ==
    IF RuleSendsToRoot THEN resolvedPath
    ELSE resolvedPath \o <<artifacts[i].name>>

\* C15: every downloadArtifact call targets the resolved root directory when
\* the mode is by-exact-name, or merge-multiple is set, or exactly one
\* artifact is selected (in by-ID, by-pattern and default mode too), and
\* root/<artifact.name> of the artifact it downloads in every other case; no
\* call targets another directory.
C15_DestinationPath ==
    \A i \in 1..Len(DownloadCallsMade) :
        /\ i <= Len(artifacts)
        /\ DownloadCallsMade[i].arg.id = artifacts[i].id
        /\ DownloadCallsMade[i].arg.path = RulePath(i)

\* C15 witness: a by-ID run without merge-multiple selected one artifact out
\* of two enumerated and downloads it to the root directory.
C15_Witness ==
    /\ ByIdMode
    /\ ~inputs.mergeMultiple
    /\ Len(availableArtifacts) = 2
    /\ Len(artifacts) = 1
    /\ Len(DownloadCallsMade) = 1
    /\ DownloadCallsMade[1].arg.path = resolvedPath

SetOutputs == SelectSeq(log, IsSetOutput)
SetFaileds == SelectSeq(log, IsSetFailed)

\* C16: a run that ends without a fatal error, a run that selected nothing
\* included, has set the download-path output exactly once, to the resolved
\* path, and logged the success message last, and every download it
\* dispatched is fulfilled by then; before the end of run() the output is not
\* set; a run that ends with a fatal error (configuration, resolution or a
\* rejected download) has one setFailed and never sets the output.
C16_OutputOnSuccessOnly ==
    /\ pc = "done" =>
          /\ Len(SetOutputs) = 1
          /\ SetOutputs[1].msg = "download-path"
          /\ SetOutputs[1].arg = resolvedPath
          /\ log[Len(log)].kind = "info"
          /\ log[Len(log)].msg = "finished successfully"
          /\ Len(SetFaileds) = 0
          /\ Len(DownloadCallsMade) = Len(downloadPromises)
          /\ \A i \in 1..Len(downloadPromises) :
                downloadPromises[i].state = "fulfilled"
    /\ pc # "done" => Len(SetOutputs) = 0
    /\ pc = "failed" =>
          /\ Len(SetFaileds) = 1
          /\ log[Len(log)].kind = "setFailed"
    /\ pc \notin {"done", "failed"} => Len(SetFaileds) = 0

\* C16 witness: a default-mode run whose listing returned nothing has finished
\* with the output set.
C16_Witness ==
    /\ DefaultMode
    /\ pc = "done"
    /\ Len(availableArtifacts) = 0
    /\ Len(DownloadCallsMade) = 0
    /\ Len(SetOutputs) = 1

\* The least position after from at which enumeration holds x; 0 if none.
PositionAfter(enumeration, x, from) ==
    LET at == {k \in (from + 1)..Len(enumeration) : enumeration[k] = x}
    IN  IF at = {} THEN 0 ELSE CHOOSE k \in at : \A m \in at : k <= m

\* selected[i..] can be found in enumeration after position from, one after
\* the other.
RECURSIVE EmbedsFrom(_, _, _, _)
EmbedsFrom(selected, enumeration, i, from) ==
    IF i > Len(selected) THEN TRUE
    ELSE LET k == PositionAfter(enumeration, selected[i], from)
         IN  k # 0 /\ EmbedsFrom(selected, enumeration, i + 1, k)

\* selected is enumeration with some elements left out, the others in place.
InOrderOf(selected, enumeration) == EmbedsFrom(selected, enumeration, 1, 0)

\* The artifacts in the order they were discovered: on the public path the
\* records of the pages in page order, otherwise the list listArtifacts gave.
Discovered ==
    IF inputs.token # "" THEN aggregatedArtifacts ELSE availableArtifacts

\* The ids of the downloadArtifact calls, in the order of the calls.
DispatchedIds ==
    [i \in 1..Len(DownloadCallsMade) |-> DownloadCallsMade[i].arg.id]

\* C17 (as claimed): in by-ID, by-pattern and default mode the selected
\* artifacts are in the order in which enumeration discovered them (on the
\* public path page order, then position in the page).
C17_DispatchInDiscoveryOrder ==
    Listed => InOrderOf(artifacts, Discovered)

\* C17 (amended): in by-ID, by-pattern and default mode the selected
\* artifacts are the list listArtifactsWithPagination returned with some
\* elements left out and none moved, and the downloads are dispatched in that
\* order; on the public path the returned list is in descending order of id,
\* as filterLatestArtifacts leaves it, not in page order.
C17_SelectionKeepsListingOrder ==
    Listed =>
        /\ InOrderOf(artifacts, availableArtifacts)
        /\ Len(DownloadCallsMade) > 0 =>
              DispatchedIds = [i \in 1..Len(artifacts) |-> artifacts[i].id]
        /\ inputs.token # "" =>
              \A i \in 1..Len(availableArtifacts) :
                  \A j \in 1..Len(availableArtifacts) :
                      i < j => availableArtifacts[i].id
                                   >= availableArtifacts[j].id

\* C17 witness: a run on the public path has dispatched two downloads,
\* greatest id first, of artifacts discovered in ascending order of id.
C17_Witness ==
    /\ Listed
    /\ inputs.token # ""
    /\ Len(aggregatedArtifacts) = 2
    /\ aggregatedArtifacts[1].id < aggregatedArtifacts[2].id
    /\ Len(DispatchedIds) = 2
    /\ DispatchedIds[1] > DispatchedIds[2]

IsTotalInfo(e) == e.kind = "info" /\ e.msg = "Total downloaded"
TotalInfos == SelectSeq(log, IsTotalInfo)

\* C18: the downloadArtifact calls of a run are, in order, one for each
\* selected artifact, with that artifact's id and its digest as expectedHash
\* (an absent digest as absent); no call is made before the selection is
\* known, none for another artifact, and none is repeated, not even after a
\* download was rejected; the count of the 'Total of N artifact(s)
\* downloaded' message of a finished run is the number of calls made.
C18_OneDownloadPerSelected ==
    /\ pc \in {"start", "awaitGetArtifact", "awaitListArtifacts", "awaitPage"}
          => Len(DownloadCallsMade) = 0
    /\ (pc \in {"awaitChunk", "done"} \/ Len(DownloadCallsMade) > 0) =>
          /\ Len(DownloadCallsMade) = Len(artifacts)
          /\ \A i \in 1..Len(DownloadCallsMade) :
                /\ DownloadCallsMade[i].arg.id = artifacts[i].id
                /\ DownloadCallsMade[i].arg.expectedHash = artifacts[i].digest
    /\ pc = "done" =>
          /\ Len(TotalInfos) = 1
          /\ TotalInfos[1].arg = Len(DownloadCallsMade)
    /\ pc # "done" => Len(TotalInfos) = 0

\* C18 witness: a finished run downloaded three artifacts or more, the first
\* with a digest and the third without.
C18_Witness ==
    /\ pc = "done"
    /\ Len(DownloadCallsMade) >= 3
    /\ DownloadCallsMade[1].arg.expectedHash = "sha256:x"
    /\ DownloadCallsMade[3].arg.expectedHash = Undefined
    /\ TotalInfos[1].arg = Len(DownloadCallsMade)

\* C19: page requests are strictly sequential.  A step makes at most one page
\* request and leaves the earlier requests as they are; the first request is
\* for page 1 and is made by the start of run(); every later request is for
\* the number of the previous one plus one and is made in the step that
\* receives the previous page's response, a full page, so that one request at
\* most is outstanding; hence no page number is requested twice.
C19_PageRequestsSequential ==
    [][/\ Len(PageCalls') <= Len(PageCalls) + 1
       /\ Len(PageCalls') >= Len(PageCalls)
       /\ \A p \in 1..Len(PageCalls) : PageCalls'[p] = PageCalls[p]
       /\ Len(PageCalls') = Len(PageCalls) + 1 =>
             /\ PageCalls'[Len(PageCalls')].arg = Len(PageCalls) + 1
             /\ pc' = "awaitPage"
             /\ IF Len(PageCalls) = 0
                THEN pc = "start"
                ELSE /\ pc = "awaitPage"
                     /\ Len(response'.artifacts) = PUBLIC_API_PAGE_SIZE
                     /\ Len(aggregatedArtifacts')
                            = Len(PageCalls) * PUBLIC_API_PAGE_SIZE
       /\ (pc = "awaitPage" /\ Len(PageCalls') = Len(PageCalls)) =>
             pc' # "awaitPage"]_vars

\* C19 witness: the third page is requested, two responses received.
C19_Witness ==
    /\ pc = "awaitPage"
    /\ Len(PageCalls) = 3
    /\ PageCalls[3].arg = 3
    /\ Len(aggregatedArtifacts) = 2 * PUBLIC_API_PAGE_SIZE

\* The loop has gone through every page with an answer in the model, all of
\* them full and none with a total that was reached.
BeyondEveryPage ==
    /\ pc = "awaitPage"
    /\ page = MaxPages + 1
    /\ Len(PageCalls) = MaxPages + 1
    /\ aggregatedArtifacts = FullPagesBefore(page)
    /\ ~(totalCount.defined /\ Len(aggregatedArtifacts) >= totalCount.val)

\* C20: the listing loop is left exactly at a response that is short (or
\* empty) or at which the running total reaches the kept total: a step that
\* receives such a response leaves the loop, and no other step does.  So,
\* every request being answered, a listing either leaves the loop or, against
\* answers that are all full and never reach a total, goes on to request the
\* page after every page answered, with no cap on the page number.
C20_ListingTermination ==
    /\ [][pc = "awaitPage" => (pc' # "awaitPage" <=> StopPage')]_vars
    /\ (pc = "awaitPage") ~> (pc # "awaitPage" \/ BeyondEveryPage)
    /\ [](pc = "awaitPage" /\ page > MaxPages => BeyondEveryPage)

\* C20 witness: MaxPages full pages without a total were received and the
\* next page is requested.
C20_Witness ==
    /\ BeyondEveryPage
    /\ ~totalCount.defined
    /\ PageCalls[Len(PageCalls)].arg = MaxPages + 1
    /\ Len(aggregatedArtifacts) = MaxPages * PUBLIC_API_PAGE_SIZE

\* No two downloadArtifact calls of the run have the same path.
PathsDistinct ==
    \A i \in 1..Len(DownloadCallsMade) : \A j \in 1..Len(DownloadCallsMade) :
        DownloadCallsMade[i].arg.path = DownloadCallsMade[j].arg.path => i = j

\* C21 (as claimed): without merge-multiple no two downloads of a run target
\* the same directory, whatever list the listing source returned.
C21_DestinationsDistinct == ~inputs.mergeMultiple => PathsDistinct

\* C21 (amended): without merge-multiple, on the public path (a token is
\* supplied), where run() gets the list that filterLatestArtifacts reduced to
\* one artifact per name, no two downloads of a run target the same
\* directory; on either path two downloads share a directory only when the
\* artifacts they download have the same name.
C21_PublicDestinationsDistinct ==
    ~inputs.mergeMultiple =>
        /\ inputs.token # "" => PathsDistinct
        /\ \A i \in 1..Len(DownloadCallsMade) :
              \A j \in 1..Len(DownloadCallsMade) :
                  (i # j /\ DownloadCallsMade[i].arg.path
                                = DownloadCallsMade[j].arg.path) =>
                      /\ inputs.token = ""
                      /\ artifacts[i].name = artifacts[j].name

\* C21 witness: without merge-multiple, a run on the public path that fetched
\* several records of one name has dispatched two downloads or more.
C21_Witness ==
    /\ ~inputs.mergeMultiple
    /\ inputs.token # ""
    /\ Len(DownloadCallsMade) >= 2
    /\ Len(aggregatedArtifacts) > Len(availableArtifacts)
    /\ DownloadCallsMade[1].arg.path # DownloadCallsMade[2].arg.path

\* C22: one selection mode is applied, by the precedence name, ids, pattern,
\* all.  With a name only getArtifact is consulted, never a listing, and the
\* artifact it returns is selected whether or not the pattern matches it.
\* Without a name getArtifact is never called.  With an ID list the selection
\* is exactly the enumerated artifacts whose id was requested, whatever the
\* pattern is.  The pattern filters only when neither name nor ids is given,
\* and with no input at all the selection is the whole enumerated list.
C22_OneSelectionMode ==
    /\ inputs.name # "" =>
          /\ Len(ListCalls) = 0
          /\ Len(PageCalls) = 0
          /\ Len(DownloadCallsMade) > 0 =>
                /\ Len(GetCalls) = 1
                /\ Len(artifacts) = 1
    /\ inputs.name = "" => Len(GetCalls) = 0
    /\ (ByIdMode /\ Listed) =>
          LET Requested(a) == a.id \in Range(artifactIds)
          IN  artifacts = SelectSeq(availableArtifacts, Requested)
    /\ (ByPatternMode /\ Listed) =>
          LET Matching(a) == MinimatchMatch(inputs.pattern, a.name)
          IN  artifacts = SelectSeq(availableArtifacts, Matching)
    /\ (DefaultMode /\ Listed) => artifacts = availableArtifacts

\* C22 witness: a by-ID run with a pattern has finished with a selected
\* artifact that the pattern does not match.
C22_Witness ==
    /\ ByIdMode
    /\ inputs.pattern = "a*"
    /\ pc = "done"
    /\ Len(availableArtifacts) = 2
    /\ Len(artifacts) = 1
    /\ artifacts[1].name = "b1"

\* A download of the run was rejected.
SomeRejected ==
    \E i \in 1..Len(downloadPromises) : downloadPromises[i].state = "rejected"

IsSuccessInfo(e) == e.kind = "info" /\ e.msg = "finished successfully"

\* C23 (as claimed): once a downloadArtifact call is rejected, the success
\* message is never logged and the output never set, the digest warnings are
\* those of the chunks before the first chunk with a rejected download, and
\* when run() is no longer waiting for a chunk it has reported the failure,
\* once, through setFailed.
C23_RejectedDownloadFailsRun ==
    SomeRejected =>
        /\ pc # "done"
        /\ Len(SelectSeq(log, IsSuccessInfo)) = 0
        /\ Len(SetOutputs) = 0
        /\ WarnedNames = MismatchedBefore(chunkIndex)
        /\ \A i \in 1..Len(downloadPromises) :
              downloadPromises[i].state = "rejected" => ChunkOf(i) >= chunkIndex
        /\ Len(SetFaileds) <= 1
        /\ pc # "awaitChunk" =>
              /\ pc = "failed"
              /\ Len(SetFaileds) = 1
              /\ log[Len(log)].kind = "setFailed"

====
